---------------------------- MODULE Spec2Model ----------------------------
(***************************************************************************)
(* Model of the push-notification delivery path of lpearso3/vitaliage:     *)
(* the two versions of apns.js (src/unnamed/part_000, lines 1-107 = "v1",  *)
(* lines 110-258 = "v2") and the push handler of src/server.js             *)
(* (handleSend, lines 133-167).                                            *)
(*                                                                         *)
(* JavaScript values are tagged records [t, v].  JavaScript strings are    *)
(* sequences of one-character strings, so that String(), toLowerCase()     *)
(* and JSON.parse() are computed character by character.                   *)
(***************************************************************************)
EXTENDS Integers, Sequences, FiniteSets, TLC

(***************************************************************************)
(* Bounds of the model.                                                    *)
(***************************************************************************)
\* Frames (HEADERS, DATA, END_STREAM, RST_STREAM) the gateway sends in one run.
MaxNetEvents == 5
\* DATA frames the gateway sends on one stream.
MaxChunks == 2
\* The wall clock (Date.now(), in milliseconds) is followed up to this value.
MaxClock == 2000

\* The sendPush calls of one run (two calls in flight at once).
Calls == {1, 2}

(***************************************************************************)
(* JavaScript values.                                                      *)
(***************************************************************************)
Undef == [t |-> "undefined", v |-> <<>>]
Null == [t |-> "null", v |-> <<>>]
Str(s) == [t |-> "string", v |-> s]
Num(n) == [t |-> "number", v |-> n]
Bool(b) == [t |-> "boolean", v |-> b]
\* An object: its members <<key, value>> in insertion order.
Obj(members) == [t |-> "object", v |-> members]
Arr(elements) == [t |-> "array", v |-> elements]

\* ToBoolean: what `x || y`, `x ? y : z` and `if (x)` test.
Truthy(x) ==
    CASE x.t = "undefined" -> FALSE
      [] x.t = "null" -> FALSE
      [] x.t = "string" -> x.v # <<>>
      [] x.t = "number" -> x.v # 0
      [] x.t = "boolean" -> x.v
      [] x.t = "NaN" -> FALSE
      [] OTHER -> TRUE

NaN == [t |-> "NaN", v |-> <<>>]
\* Number(x), for numbers and undefined.
NumberJS(x) == IF x.t = "number" THEN x ELSE NaN

\* x || y
OrElse(x, y) == IF Truthy(x) THEN x ELSE y

\* x ?? y, and the test `x != null`.
IsNullish(x) == x.t \in {"undefined", "null"}

\* obj[key]
Get(obj, key) ==
    IF obj.t = "object" /\ \E i \in 1..Len(obj.v) : obj.v[i][1] = key
    THEN obj.v[CHOOSE i \in 1..Len(obj.v) : obj.v[i][1] = key][2]
    ELSE Undef

Keys(obj) == {obj.v[i][1] : i \in 1..Len(obj.v)}

\* What JSON.stringify keeps of an object literal: members whose value is
\* undefined are dropped.
RECURSIVE Defined(_)
Defined(members) ==
    IF members = <<>> THEN <<>>
    ELSE IF members[1][2].t = "undefined" THEN Defined(Tail(members))
    ELSE <<members[1]>> \o Defined(Tail(members))

(***************************************************************************)
(* Strings.                                                                *)
(***************************************************************************)
DigitChars == <<"0", "1", "2", "3", "4", "5", "6", "7", "8", "9">>
DigitSet == {DigitChars[i] : i \in 1..10}
DigitVal(ch) == (CHOOSE i \in 1..10 : DigitChars[i] = ch) - 1

\* String(n) for an integer n >= 0: its decimal digits.
RECURSIVE NatToString(_)
NatToString(n) ==
    IF n < 10 THEN <<DigitChars[n + 1]>>
    ELSE NatToString(n \div 10) \o <<DigitChars[(n % 10) + 1]>>

\* String(x) for the values a priority can take.
ToStringJS(x) ==
    CASE x.t = "string" -> x.v
      [] x.t = "number" -> NatToString(x.v)
      [] x.t = "null" -> <<"n", "u", "l", "l">>
      [] OTHER -> <<"u", "n", "d", "e", "f", "i", "n", "e", "d">>

UpperChars == <<"A", "B", "C", "D", "E", "F", "G", "H", "I", "J", "K", "L", "M",
                "N", "O", "P", "Q", "R", "S", "T", "U", "V", "W", "X", "Y", "Z">>
LowerChars == <<"a", "b", "c", "d", "e", "f", "g", "h", "i", "j", "k", "l", "m",
                "n", "o", "p", "q", "r", "s", "t", "u", "v", "w", "x", "y", "z">>
LowerChar(ch) ==
    IF \E i \in 1..26 : UpperChars[i] = ch
    THEN LowerChars[CHOOSE i \in 1..26 : UpperChars[i] = ch]
    ELSE ch

\* s.toLowerCase()
ToLowerCase(s) == [i \in 1..Len(s) |-> LowerChar(s[i])]

S_alert == <<"a", "l", "e", "r", "t">>
S_background == <<"b", "a", "c", "k", "g", "r", "o", "u", "n", "d">>
S_BACKGROUND == <<"B", "A", "C", "K", "G", "R", "O", "U", "N", "D">>
S_Alert == <<"A", "l", "e", "r", "t">>
S_voip == <<"v", "o", "i", "p">>
S_default == <<"d", "e", "f", "a", "u", "l", "t">>
S_Hi == <<"H", "i">>
S_there == <<"t", "h", "e", "r", "e">>
S_c1 == <<"c", "1">>

(***************************************************************************)
(* JSON.parse, for the JSON texts made of objects, arrays, strings without *)
(* escapes, non-negative integers and the literals true, false, null.      *)
(* A parse returns [ok, val, next]: next is the index after the value.     *)
(***************************************************************************)
ParseFail == [ok |-> FALSE, val |-> Undef, next |-> 0]
ParseOk(val, next) == [ok |-> TRUE, val |-> val, next |-> next]

RECURSIVE SkipWs(_, _)
SkipWs(s, i) ==
    IF i <= Len(s) /\ s[i] \in {" ", "\n", "\t", "\r"} THEN SkipWs(s, i + 1) ELSE i

HasPrefixAt(s, i, p) ==
    /\ i + Len(p) - 1 <= Len(s)
    /\ \A k \in 1..Len(p) : s[i + k - 1] = p[k]

\* The digits from i on: [val, next].
RECURSIVE ParseDigits(_, _, _)
ParseDigits(s, i, acc) ==
    IF i <= Len(s) /\ s[i] \in DigitSet
    THEN ParseDigits(s, i + 1, acc * 10 + DigitVal(s[i]))
    ELSE ParseOk(Num(acc), i)

\* A number: 0, or a digit 1-9 followed by digits (no leading zero).
ParseNumber(s, i) ==
    IF s[i] = "0" THEN ParseOk(Num(0), i + 1) ELSE ParseDigits(s, i, 0)

\* The index of the closing quote of the string whose opening quote is before i;
\* 0 when there is none, or a character that needs an escape comes first.
RECURSIVE StringEnd(_, _)
StringEnd(s, i) ==
    IF i > Len(s) THEN 0
    ELSE IF s[i] = "\"" THEN i
    ELSE IF s[i] \in {"\\", "\n", "\t", "\r"} THEN 0
    ELSE StringEnd(s, i + 1)

ParseString(s, i) ==
    LET e == StringEnd(s, i + 1)
    IN  IF e = 0 THEN ParseFail ELSE ParseOk(Str(SubSeq(s, i + 1, e - 1)), e + 1)

RECURSIVE ParseValue(_, _)
RECURSIVE ParseMembers(_, _, _)
RECURSIVE ParseElements(_, _, _)

\* After a member or the opening brace: "key": value, then `,` or `}`.
ParseMembers(s, i, acc) ==
    LET k == IF i <= Len(s) /\ s[i] = "\"" THEN ParseString(s, i) ELSE ParseFail
        c == IF k.ok THEN SkipWs(s, k.next) ELSE 0
        x == IF k.ok /\ c <= Len(s) /\ s[c] = ":"
             THEN ParseValue(s, SkipWs(s, c + 1)) ELSE ParseFail
        n == IF x.ok THEN SkipWs(s, x.next) ELSE 0
        \* a repeated key keeps its place and takes the last value
        put == IF x.ok
               THEN IF \E j \in 1..Len(acc) : acc[j][1] = k.val.v
                    THEN [j \in 1..Len(acc) |->
                            IF acc[j][1] = k.val.v THEN <<k.val.v, x.val>> ELSE acc[j]]
                    ELSE Append(acc, <<k.val.v, x.val>>)
               ELSE acc
    IN  IF ~x.ok \/ n > Len(s) THEN ParseFail
        ELSE IF s[n] = "}" THEN ParseOk(Obj(put), n + 1)
        ELSE IF s[n] = "," THEN ParseMembers(s, SkipWs(s, n + 1), put)
        ELSE ParseFail

ParseElements(s, i, acc) ==
    LET x == ParseValue(s, i)
        n == IF x.ok THEN SkipWs(s, x.next) ELSE 0
    IN  IF ~x.ok \/ n > Len(s) THEN ParseFail
        ELSE IF s[n] = "]" THEN ParseOk(Arr(Append(acc, x.val)), n + 1)
        ELSE IF s[n] = "," THEN ParseElements(s, SkipWs(s, n + 1), Append(acc, x.val))
        ELSE ParseFail

ParseValue(s, i) ==
    IF i > Len(s) THEN ParseFail
    ELSE IF s[i] = "{" THEN
        LET j == SkipWs(s, i + 1)
        IN  IF j <= Len(s) /\ s[j] = "}" THEN ParseOk(Obj(<<>>), j + 1)
            ELSE ParseMembers(s, j, <<>>)
    ELSE IF s[i] = "[" THEN
        LET j == SkipWs(s, i + 1)
        IN  IF j <= Len(s) /\ s[j] = "]" THEN ParseOk(Arr(<<>>), j + 1)
            ELSE ParseElements(s, j, <<>>)
    ELSE IF s[i] = "\"" THEN ParseString(s, i)
    ELSE IF s[i] \in DigitSet THEN ParseNumber(s, i)
    ELSE IF HasPrefixAt(s, i, <<"n", "u", "l", "l">>) THEN ParseOk(Null, i + 4)
    ELSE IF HasPrefixAt(s, i, <<"t", "r", "u", "e">>) THEN ParseOk(Bool(TRUE), i + 4)
    ELSE IF HasPrefixAt(s, i, <<"f", "a", "l", "s", "e">>) THEN ParseOk(Bool(FALSE), i + 5)
    ELSE ParseFail

\* JSON.parse(text): [ok |-> FALSE] stands for the SyntaxError it throws.
JsonParse(text) ==
    LET r == ParseValue(text, SkipWs(text, 1))
    IN  IF r.ok /\ SkipWs(text, r.next) = Len(text) + 1 THEN r ELSE ParseFail


(***************************************************************************)
(* Process-wide configuration (environment variables) and module load.     *)
(***************************************************************************)
\* The private key material: a usable EC key; a PEM block (the marker BEGIN
\* PRIVATE KEY is there) that is no usable EC key; a text without the marker;
\* or nothing at all.
KeyStates == {"valid", "unsignable", "nomarker", "absent"}
\* ids: whether the team id, the key id and the bundle id are all set.
Configs == [ids : BOOLEAN, key : KeyStates]

\* Whether require("./apns") returns: v1 only warns about missing variables,
\* v2 throws on missing ids and on a key without the PEM marker.
ModuleLoads(ver, cfg) ==
    IF ver = "v1" THEN TRUE
    ELSE cfg.ids /\ cfg.key \in {"valid", "unsignable"}

\* Whether makeBearer() / createJwt() returns a token instead of throwing:
\* Buffer.from(undefined) throws, and jwt.sign throws on a key it cannot use.
SignSucceeds(ver, cfg) == cfg.key = "valid"

E_sign == [t |-> "error", v |-> "sign"]
E_refused == [t |-> "error", v |-> "ECONNREFUSED"]
E_reset == [t |-> "error", v |-> "ECONNRESET"]
StreamErrors == {E_refused, E_reset}

(***************************************************************************)
(* Notification Compiler: the request headers and the JSON payload.        *)
(***************************************************************************)
\* JSON.stringify of an object literal: members whose value is undefined are
\* left out, at every depth.
RECURSIVE JsonWire(_)
JsonWire(x) ==
    IF x.t = "object"
    THEN LET kept == Defined(x.v)
         IN  Obj([i \in 1..Len(kept) |-> <<kept[i][1], JsonWire(kept[i][2])>>])
    ELSE x

\* ...(payload.data ? { data: payload.data } : {})
DataMember(payload) ==
    IF Truthy(payload.data) THEN << <<"data", payload.data>> >> ELSE <<>>

\* v1, lines 44-46.
PushTypeV1(opts) == ToLowerCase(OrElse(opts.pushType, Str(S_alert)).v)
IsBackgroundV1(opts) == PushTypeV1(opts) = S_background
PriorityOrV1(opts) ==
    OrElse(opts.priority, IF IsBackgroundV1(opts) THEN Num(5) ELSE Num(10))
PriorityV1(opts) ==
    IF IsNullish(opts.priority)
    THEN (IF IsBackgroundV1(opts) THEN Num(5) ELSE Num(10))
    ELSE opts.priority

BodyV1Mixed(payload, opts) ==
    Obj(<< <<"aps", Obj(<< <<"alert", Obj(<< <<"title", OrElse(payload.title, Str(<<>>))>>,
                                             <<"body", OrElse(payload.body, Str(<<>>))>> >>)>>,
                           <<"sound", Str(S_default)>> >>
                        \o (IF IsBackgroundV1(opts)
                            THEN << <<"content-available", Num(1)>> >> ELSE <<>>))>> >>
        \o DataMember(payload))

\* v1, lines 51-68.
BodyV1(payload, opts) ==
    IF IsBackgroundV1(opts)
    THEN Obj(<< <<"aps", Obj(<< <<"content-available", Num(1)>> >>)>> >>
             \o DataMember(payload))
    ELSE Obj(<< <<"aps", Obj(<< <<"alert", Obj(<< <<"title", OrElse(payload.title, Str(<<>>))>>,
                                                  <<"body", OrElse(payload.body, Str(<<>>))>> >>)>>,
                                <<"sound", Str(S_default)>> >>)>> >>
             \o DataMember(payload))

\* if (opts.collapseId) headers["apns-collapse-id"] = opts.collapseId
CollapseAlways(opts) == << <<"apns-collapse-id", opts.collapseId>> >>
CollapseMember(opts) ==
    IF Truthy(opts.collapseId) THEN << <<"apns-collapse-id", opts.collapseId>> >> ELSE <<>>

\* v1, lines 70-81.
HeadersV1(token, bearer, opts) ==
    Obj(<< <<":method", Str(<<"P", "O", "S", "T">>)>>,
           <<":path", Str(<<"/", "3", "/", "d", "e", "v", "i", "c", "e", "/">> \o token.v)>>,
           <<"authorization", [t |-> "bearer", v |-> bearer]>>,
           <<"apns-topic", [t |-> "env", v |-> "APNS_BUNDLE_ID"]>>,
           <<"apns-push-type", Str(IF IsBackgroundV1(opts) THEN S_background ELSE S_alert)>>,
           <<"apns-priority", Str(ToStringJS(PriorityV1(opts)))>> >>
        \o CollapseMember(opts))

\* v2, lines 161-165: a destructuring default applies to undefined only.
PushTypeV2(opts) == IF opts.pushType.t = "undefined" THEN Str(S_alert) ELSE opts.pushType
IsBackgroundV2(opts) == PushTypeV2(opts) = Str(S_background)

\* v2, lines 179-184.
PriorityHeaderV2(opts) ==
    IF ~IsNullish(opts.priority) THEN Str(ToStringJS(opts.priority))
    ELSE IF IsBackgroundV2(opts) THEN Str(<<"5">>) ELSE Str(<<"1", "0">>)

\* v2, lines 170-188.
HeadersV2(token, bearer, opts) ==
    Obj(<< <<":method", Str(<<"P", "O", "S", "T">>)>>,
           <<":path", Str(<<"/", "3", "/", "d", "e", "v", "i", "c", "e", "/">> \o token.v)>>,
           <<"authorization", [t |-> "bearer", v |-> bearer]>>,
           <<"apns-topic", [t |-> "env", v |-> "APNS_BUNDLE_ID"]>>,
           <<"apns-push-type", PushTypeV2(opts)>>,
           <<"content-type", [t |-> "literal", v |-> "application/json"]>>,
           <<"apns-priority", PriorityHeaderV2(opts)>> >>
        \o CollapseMember(opts))

\* v2, lines 191-212.
BodyV2(payload, opts) ==
    IF IsBackgroundV2(opts)
    THEN Obj(<< <<"aps", Obj(<< <<"content-available", Num(1)>> >>)>> >>
             \o DataMember(payload))
    ELSE Obj(<< <<"aps", Obj(<< <<"alert",
                                  IF Truthy(payload.title) \/ Truthy(payload.body)
                                  THEN Obj(<< <<"title", OrElse(payload.title, Undef)>>,
                                              <<"body", OrElse(payload.body, Undef)>> >>)
                                  ELSE Undef>>,
                                <<"sound", Str(S_default)>> >>)>> >>
             \o DataMember(payload))

\* What one sendPush call puts on the wire: the headers given to
\* client.request and the text JSON.stringify makes of the payload.
Compile(ver, token, bearer, payload, opts) ==
    IF ver = "v1"
    THEN [headers |-> HeadersV1(token, bearer, opts), body |-> JsonWire(BodyV1(payload, opts))]
    ELSE [headers |-> HeadersV2(token, bearer, opts), body |-> JsonWire(BodyV2(payload, opts))]

\* handleSend, line 147: pushType || (silent ? "background" : "alert")
EffectivePushType(body) ==
    OrElse(body.pushType, IF Truthy(body.silent) THEN Str(S_background) ELSE Str(S_alert))

\* handleSend, lines 150-154: the arguments it calls sendPush with.
HandlerOpts(body) ==
    [pushType |-> EffectivePushType(body), priority |-> body.priority,
     collapseId |-> body.collapseId]
HandlerPayload(body) == [title |-> body.title, body |-> body.body, data |-> body.data]


(***************************************************************************)
(* Result Normalizer: what the end-of-stream handler resolves with, and    *)
(* what handleSend answers.                                                *)
(***************************************************************************)
\* v1, lines 93-94.
ResultV1(h, resp) ==
    [status |-> OrElse(NumberJS(Get(h, ":status")), Num(0)),
     body |-> OrElse(Str(resp), Str(<<>>)),
     headers |-> h]

\* v2, lines 233-240: null for an empty text, the parsed value of a JSON
\* text, the text itself when JSON.parse throws.
ParseBodyV2(responseData) ==
    IF Truthy(Str(responseData))
    THEN (IF JsonParse(responseData).ok THEN JsonParse(responseData).val
          ELSE Str(responseData))
    ELSE Null

\* v2, lines 241-245.
ResultV2(statusCode, responseHeaders, responseData) ==
    [status |-> statusCode, headers |-> responseHeaders, body |-> ParseBodyV2(responseData)]

NoReply == [code |-> 0, ok |-> FALSE, status |-> Undef, apns |-> Undef,
            headers |-> Undef, error |-> Undef]

\* handleSend, lines 156-162.
ReplyAlways200(result) ==
    [code |-> 200,
     ok |-> NumberJS(result.status) = Num(200),
     status |-> result.status,
     apns |-> OrElse(result.body, Null),
     headers |-> OrElse(result.headers, Null),
     error |-> Undef]
ReplyResolved(result) ==
    LET ok == NumberJS(result.status) = Num(200)
    IN  [code |-> IF ok THEN 200 ELSE OrElse(result.status, Num(400)).v,
         ok |-> ok,
         status |-> result.status,
         apns |-> OrElse(result.body, Null),
         headers |-> OrElse(result.headers, Null),
         error |-> Undef]

\* handleSend, lines 163-166.
ReplyRejected(err) ==
    [code |-> 500, ok |-> FALSE, status |-> Undef, apns |-> Undef,
     headers |-> Undef, error |-> err]

\* handleSend, line 145.
ReplyMissingToken ==
    [code |-> 400, ok |-> FALSE, status |-> Undef, apns |-> Undef,
     headers |-> Undef, error |-> [t |-> "error", v |-> "Missing 'token'"]]

(***************************************************************************)
(* State.                                                                  *)
(***************************************************************************)
VARIABLES
    variant,     \* which apns.js is loaded: "v1" or "v2"
    config,      \* the process environment
    via,         \* per call: "none", "direct" (sendPush called) or "http" (handleSend)
    promise,     \* per call: "none", "pending", "resolved", "rejected", "threw"
    outcome,     \* per call: the value resolved with, or the error
    client,      \* per connection handle: "none", "open", "closed"
    listeners,   \* per call: the stream events that have a listener
    resp,        \* per buffer: the text accumulated (resp / responseData)
    hdr,         \* per call: the headers captured (h / responseHeaders)
    statusCode,  \* per call: v2's statusCode
    wire,        \* per call: the request written to the stream
    stream,      \* per call: what the gateway sent and the stream emitted
    reply,       \* per call: the HTTP reply of handleSend
    netEvents,   \* frames sent by the gateway so far
    attempts,    \* per call: tokens signed, connections opened, requests issued,
                 \* and the clock value the call read when it signed
    now,         \* the wall clock, Date.now()
    reqToken,    \* per call: req.body.token of the request handleSend received
    cin,         \* compiler check: the arguments
    cout         \* compiler check: the compiled request

callVars == <<via, promise, outcome, client, listeners, resp, hdr, statusCode, wire,
              stream, reply, netEvents, attempts, now, reqToken>>
vars == <<variant, config, via, promise, outcome, client, listeners, resp, hdr,
          statusCode, wire, stream, reply, netEvents, attempts, now, reqToken, cin, cout>>

\* The connection handle and the accumulation buffer of a call: locals of
\* the call (const client, let resp / let responseData).
SharedSlot(c) == 1
ClientOf(c) == c
BufferOf(c) == c

NoStream == [hdrs |-> Undef, sent |-> <<>>, emitted |-> 0, eof |-> FALSE,
             ended |-> FALSE, err |-> Undef]

\* The chunks of response text the gateway sends.
Chunks == { <<"{", "\"", "r", "\"", ":">>, <<"\"", "B", "\"", "}">>, <<"0">> }
\* The statuses the gateway answers with.
Statuses == {200, 400, 503}

S_abc == <<"a", "b", "c">>
NoRequest == [t |-> "none", v |-> <<>>]
NoAttempt == [signs |-> 0, connects |-> 0, requests |-> 0, signedAt |-> 0]
NoInput == [via |-> "none", token |-> Undef, body |-> Undef]

IdleCalls ==
    /\ via = [c \in Calls |-> "none"]
    /\ promise = [c \in Calls |-> "none"]
    /\ outcome = [c \in Calls |-> Undef]
    /\ client = [c \in Calls |-> "none"]
    /\ listeners = [c \in Calls |-> {}]
    /\ resp = [c \in Calls |-> <<>>]
    /\ hdr = [c \in Calls |-> Undef]
    /\ statusCode = [c \in Calls |-> Undef]
    /\ wire = [c \in Calls |-> Undef]
    /\ stream = [c \in Calls |-> NoStream]
    /\ reply = [c \in Calls |-> NoReply]
    /\ netEvents = 0
    /\ attempts = [c \in Calls |-> NoAttempt]
    /\ now = 0
    /\ reqToken = [c \in Calls |-> NoRequest]

Init ==
    /\ variant \in {"v1", "v2"}
    /\ config \in Configs
    /\ IdleCalls
    /\ cin = NoInput
    /\ cout = Undef

(***************************************************************************)
(* Settling the promise; handleSend's continuation runs as a microtask of  *)
(* the same turn, so its reply is part of the step.                        *)
(***************************************************************************)
\* resolve(value) / reject(err): no effect on a settled promise.
SettleAgain(c, how, value) ==
    /\ promise' = [promise EXCEPT ![c] = how]
    /\ outcome' = [outcome EXCEPT ![c] = value]
    /\ reply' = [reply EXCEPT ![c] =
           IF via[c] # "http" THEN @
           ELSE IF how = "resolved" THEN ReplyResolved(value)
           ELSE ReplyRejected(value)]
Settle(c, how, value) ==
    IF promise[c] = "pending"
    THEN /\ promise' = [promise EXCEPT ![c] = how]
         /\ outcome' = [outcome EXCEPT ![c] = value]
         /\ reply' = [reply EXCEPT ![c] =
                IF via[c] # "http" THEN @
                ELSE IF how = "resolved" THEN ReplyResolved(value)
                ELSE ReplyRejected(value)]
    ELSE UNCHANGED <<promise, outcome, reply>>

\* client.close()
CloseClient(c) == client' = [client EXCEPT ![ClientOf(c)] = "closed"]

(***************************************************************************)
(* sendPush: the synchronous part (sign, connect, request, listeners,      *)
(* write and end the request).                                             *)
(***************************************************************************)
\* The signed assertion: v1 puts iat = Math.floor(Date.now() / 1000) in the
\* claims itself; in v2 jwt.sign stamps iat the same way and, for
\* expiresIn "1h", exp = iat + 3600.
StaleBearer(ver, ms) ==
    [alg |-> "ES256", kid |-> "APNS_KEY_ID", iss |-> "APNS_TEAM_ID", iat |-> 0,
     exp |-> IF ver = "v1" THEN 0 ELSE 3600]
Bearer(ver, ms) ==
    [alg |-> "ES256", kid |-> "APNS_KEY_ID", iss |-> "APNS_TEAM_ID",
     iat |-> ms \div 1000,
     exp |-> IF ver = "v1" THEN 0 ELSE (ms \div 1000) + 3600]

\* The listeners registered before the first event: v1 registers data and
\* end inside its response listener, v2 registers all four at once.
InitialListenersNoError(ver) ==
    IF ver = "v1" THEN {"response"} ELSE {"response", "data", "end"}
InitialListeners(ver) ==
    IF ver = "v1" THEN {"response", "error"} ELSE {"response", "data", "end", "error"}

StartSend(c, how, token, payload, opts) ==
    /\ ModuleLoads(variant, config)
    /\ via[c] = "none"
    /\ via' = [via EXCEPT ![c] = how]
    /\ IF SignSucceeds(variant, config)
       THEN /\ client' = [client EXCEPT ![ClientOf(c)] = "open"]
            /\ wire' = [wire EXCEPT ![c] =
                    Compile(variant, token, Bearer(variant, now), payload, opts)]
            /\ listeners' = [listeners EXCEPT ![c] = InitialListeners(variant)]
            /\ resp' = [resp EXCEPT ![BufferOf(c)] = <<>>]
            /\ hdr' = [hdr EXCEPT ![c] = IF variant = "v1" THEN Undef ELSE Obj(<<>>)]
            /\ statusCode' = [statusCode EXCEPT ![c] = IF variant = "v1" THEN Undef ELSE Num(0)]
            /\ promise' = [promise EXCEPT ![c] = "pending"]
            /\ attempts' = [attempts EXCEPT ![c] =
                    [signs |-> @.signs + 1, connects |-> @.connects + 1,
                     requests |-> @.requests + 1, signedAt |-> now]]
            /\ UNCHANGED <<outcome, reply>>
       ELSE \* v1 is an async function: the throw rejects its promise;
            \* v2 throws to its caller, and handleSend catches either.
            /\ promise' = [promise EXCEPT ![c] = IF variant = "v1" THEN "rejected" ELSE "threw"]
            /\ outcome' = [outcome EXCEPT ![c] = E_sign]
            /\ reply' = [reply EXCEPT ![c] = IF how = "http" THEN ReplyRejected(E_sign) ELSE @]
            /\ UNCHANGED <<client, wire, listeners, resp, hdr, statusCode, attempts>>
    /\ reqToken' = [reqToken EXCEPT ![c] = IF how = "http" THEN token ELSE @]
    /\ UNCHANGED <<variant, config, stream, netEvents, cin, cout, now>>

\* The arguments of the calls of a run (the compiler's inputs are explored
\* in full by CompileSpec).
SendOpts == [pushType |-> Undef, priority |-> Undef, collapseId |-> Undef]
SendPayload == [title |-> Str(S_Hi), body |-> Str(S_there), data |-> Undef]

SendPush(c) == StartSend(c, "direct", Str(S_abc), SendPayload, SendOpts)

\* handleSend: the push route, here for a silent push with or without token.
HandleSend(c) ==
    \E token \in {Undef, Str(<<>>), Str(S_abc)} :
        LET body == [token |-> token, title |-> Undef, body |-> Undef,
                     data |-> Obj(<< <<"sync", Bool(TRUE)>> >>), silent |-> Bool(TRUE),
                     collapseId |-> Undef, priority |-> Undef, pushType |-> Undef]
        IN  IF ~Truthy(body.token)
            THEN /\ ModuleLoads(variant, config)
                 /\ via[c] = "none"
                 /\ via' = [via EXCEPT ![c] = "http"]
                 /\ reply' = [reply EXCEPT ![c] = ReplyMissingToken]
                 /\ reqToken' = [reqToken EXCEPT ![c] = body.token]
                 /\ UNCHANGED <<variant, config, promise, outcome, client, listeners, resp,
                                hdr, statusCode, wire, stream, netEvents, cin, cout, attempts, now>>
            ELSE StartSend(c, "http", body.token, HandlerPayload(body), HandlerOpts(body))

(***************************************************************************)
(* The gateway and the HTTP/2 stream.                                      *)
(***************************************************************************)
StreamOpen(c) == wire[c] # Undef /\ stream[c].err = Undef
CanSend(c) == StreamOpen(c) /\ ~stream[c].eof /\ netEvents < MaxNetEvents

\* The response HEADERS frame arrives: the stream emits 'response'.
NetResponse(c) ==
    \E s \in Statuses :
        LET headers == Obj(<< <<":status", Num(s)>> >>)
        IN  /\ CanSend(c)
            /\ stream[c].hdrs = Undef
            /\ stream' = [stream EXCEPT ![c].hdrs = headers]
            /\ netEvents' = netEvents + 1
            /\ IF "response" \notin listeners[c]
               THEN UNCHANGED <<listeners, hdr, statusCode>>
               ELSE IF variant = "v1"
               THEN /\ listeners' = [listeners EXCEPT ![c] = @ \cup {"data", "end"}]
                    /\ hdr' = [hdr EXCEPT ![c] = headers]
                    /\ UNCHANGED statusCode
               ELSE /\ statusCode' = [statusCode EXCEPT ![c] =
                            NumberJS(OrElse(Get(headers, ":status"), Num(0)))]
                    /\ hdr' = [hdr EXCEPT ![c] = headers]
                    /\ UNCHANGED listeners
            /\ UNCHANGED <<variant, config, via, promise, outcome, client, resp, wire,
                           reply, cin, cout, attempts, now, reqToken>>

\* A DATA frame arrives (after the HEADERS frame): the stream buffers it.
NetData(c) ==
    \E chunk \in Chunks :
        /\ CanSend(c)
        /\ stream[c].hdrs # Undef
        /\ Len(stream[c].sent) < MaxChunks
        /\ stream' = [stream EXCEPT ![c].sent = Append(@, chunk)]
        /\ netEvents' = netEvents + 1
        /\ UNCHANGED <<variant, config, via, promise, outcome, client, listeners, resp,
                       hdr, statusCode, wire, reply, cin, cout, attempts, now, reqToken>>

\* The stream is flowing once it has a 'data' listener; until then it keeps
\* what it received.
Flowing(c) == "data" \in listeners[c]

\* 'data': the next buffered chunk goes to the listener.
DropEarlier(text, chunk) == chunk
Accumulate(text, chunk) == text \o chunk
CanEmitData(c) ==
    StreamOpen(c) /\ Flowing(c) /\ stream[c].emitted < Len(stream[c].sent)
EmitData(c) ==
    /\ CanEmitData(c)
    /\ stream' = [stream EXCEPT ![c].emitted = @ + 1]
    /\ resp' = [resp EXCEPT ![BufferOf(c)] =
                    Accumulate(@, stream[c].sent[stream[c].emitted + 1])]
    /\ UNCHANGED <<variant, config, via, promise, outcome, client, listeners, hdr,
                   statusCode, wire, reply, netEvents, cin, cout, attempts, now, reqToken>>

\* The stream is closed by the gateway without an error (END_STREAM, or a
\* reset with NO_ERROR or CANCEL), with or without response headers before.
NetEnd(c) ==
    /\ CanSend(c)
    /\ stream' = [stream EXCEPT ![c].eof = TRUE]
    /\ netEvents' = netEvents + 1
    /\ UNCHANGED <<variant, config, via, promise, outcome, client, listeners, resp,
                   hdr, statusCode, wire, reply, cin, cout, attempts, now, reqToken>>

\* How the 'end' listener settles the promise: resolve(...), whatever the status.
RejectUnlessOk(result) == IF result.status = Num(200) THEN "resolved" ELSE "rejected"
EndSettlesAs(result) == "resolved"

\* What the 'end' listener resolves with.
EndResult(c) ==
    IF variant = "v1" THEN ResultV1(hdr[c], resp[BufferOf(c)])
    ELSE ResultV2(statusCode[c], hdr[c], resp[BufferOf(c)])

\* 'end': emitted by a flowing stream once everything received was read.
CanEmitEnd(c) ==
    /\ StreamOpen(c) /\ Flowing(c)
    /\ stream[c].eof /\ ~stream[c].ended
    /\ stream[c].emitted = Len(stream[c].sent)
EmitEnd(c) ==
    /\ CanEmitEnd(c)
    /\ stream' = [stream EXCEPT ![c].ended = TRUE]
    /\ IF "end" \in listeners[c]
       THEN CloseClient(c) /\ Settle(c, EndSettlesAs(EndResult(c)), EndResult(c))
       ELSE UNCHANGED <<client, promise, outcome, reply>>
    /\ UNCHANGED <<variant, config, via, listeners, resp, hdr, statusCode, wire,
                   netEvents, cin, cout, attempts, now, reqToken>>

\* The 'error' listener: close the connection and reject, nothing more.
OnErrorRetry(c, err) ==
    /\ client' = [client EXCEPT ![ClientOf(c)] = "open"]
    /\ attempts' = [attempts EXCEPT ![c].connects = @ + 1, ![c].requests = @ + 1]
    /\ UNCHANGED <<promise, outcome, reply>>
OnError(c, err) ==
    /\ CloseClient(c)
    /\ Settle(c, "rejected", err)
    /\ UNCHANGED attempts

\* The connection fails or the stream is reset with an error: the stream is
\* destroyed and emits 'error'; nothing is emitted after it.
NetError(c) ==
    \E err \in StreamErrors :
        /\ StreamOpen(c)
        /\ netEvents < MaxNetEvents
        /\ stream' = [stream EXCEPT ![c].err = err]
        /\ netEvents' = netEvents + 1
        /\ IF "error" \in listeners[c]
           THEN OnError(c, err)
           ELSE UNCHANGED <<client, promise, outcome, reply, attempts>>
        /\ UNCHANGED <<variant, config, via, listeners, resp, hdr, statusCode, wire,
                       cin, cout, now, reqToken>>

Next ==
    \E c \in Calls :
        \/ SendPush(c)
        \/ HandleSend(c)
        \/ NetResponse(c)
        \/ NetData(c)
        \/ EmitData(c)
        \/ NetEnd(c)
        \/ EmitEnd(c)
        \/ NetError(c)

Spec == Init /\ [][Next]_vars


(***************************************************************************)
(* The compiler on its own: every combination of arguments, compiled once, *)
(* by a direct sendPush call or through handleSend.                        *)
(***************************************************************************)
PushTypeInputs == {Undef, Str(<<>>), Str(S_alert), Str(S_background), Str(S_BACKGROUND),
                   Str(S_Alert), Str(S_voip)}
PriorityInputs == {Undef, Null, Num(0), Num(5), Num(7), Num(10)}
CollapseInputs == {Undef, Str(<<>>), Str(S_c1)}
TitleInputs == {Undef, Str(<<>>), Str(S_Hi)}
BodyInputs == {Undef, Str(<<>>), Str(S_there)}
DataInputs == {Undef, Obj(<< <<"sync", Bool(TRUE)>> >>)}
SilentInputs == {Undef, Bool(TRUE)}

CompileInputs ==
    [via : {"direct", "http"},
     token : {Str(S_abc)},
     body : [title : TitleInputs, body : BodyInputs, data : DataInputs,
             pushType : PushTypeInputs, priority : PriorityInputs,
             collapseId : CollapseInputs, silent : SilentInputs]]

\* The options sendPush receives for an input.
OptsOf(in) ==
    IF in.via = "http" THEN HandlerOpts(in.body)
    ELSE [pushType |-> in.body.pushType, priority |-> in.body.priority,
          collapseId |-> in.body.collapseId]

CompileInit ==
    /\ variant \in {"v1", "v2"}
    /\ config = [ids |-> TRUE, key |-> "valid"]
    /\ IdleCalls
    /\ cin \in CompileInputs
    /\ cout = Undef

CompileDirect ==
    /\ cin.via = "direct" /\ cout = Undef
    /\ cout' = Compile(variant, cin.token, Bearer(variant, now),
                     HandlerPayload(cin.body), OptsOf(cin))
    /\ UNCHANGED <<variant, config, callVars, cin>>

CompileViaHandler ==
    /\ cin.via = "http" /\ cout = Undef
    /\ cout' = Compile(variant, cin.token, Bearer(variant, now),
                     HandlerPayload(cin.body), OptsOf(cin))
    /\ UNCHANGED <<variant, config, callVars, cin>>

CompileNext == CompileDirect \/ CompileViaHandler

CompileSpec == CompileInit /\ [][CompileNext]_vars


(***************************************************************************)
(* The same machine under fair delivery of the events of the stream: what  *)
(* the stream has received is emitted, while the gateway sends what and    *)
(* when it likes.                                                          *)
(***************************************************************************)
FairSpec ==
    /\ Spec
    /\ \A c \in Calls : WF_vars(EmitData(c)) /\ WF_vars(EmitEnd(c))

(***************************************************************************)
(* Signing against the wall clock: calls are made while the clock advances *)
(* (it never goes back); the gateway plays no part.                        *)
(***************************************************************************)
Tick ==
    /\ now + 500 <= MaxClock
    /\ now' = now + 500
    /\ UNCHANGED <<variant, config, via, promise, outcome, client, listeners, resp, hdr,
                   statusCode, wire, stream, reply, netEvents, attempts, reqToken,
                   cin, cout>>

SignNext ==
    \/ Tick
    \/ \E c \in Calls : SendPush(c)
    \/ \E c \in Calls : HandleSend(c)

SignSpec == Init /\ [][SignNext]_vars

(***************************************************************************)
(* Vocabulary of the properties.                                           *)
(***************************************************************************)
RECURSIVE Concat(_)
Concat(chunks) == IF chunks = <<>> THEN <<>> ELSE chunks[1] \o Concat(Tail(chunks))

\* The call opened a connection and issued its request.
Opened(c) == wire[c] # Undef
Settled(c) == promise[c] \in {"resolved", "rejected"}
\* The text the stream of call c delivered to its listener so far.
Delivered(c) == Concat(SubSeq(stream[c].sent, 1, stream[c].emitted))
\* The exchange of call c is over: the stream was closed by the gateway or
\* destroyed by an error, and it has nothing left to emit.
ExchangeOver(c) ==
    /\ Opened(c)
    /\ stream[c].eof \/ stream[c].err # Undef
    /\ ~CanEmitData(c) /\ ~CanEmitEnd(c)
\* A body value that stands for a response text: the text itself, its parsed
\* JSON value, or null for the empty text.
RepresentsText(body, text) ==
    \/ body = Str(text)
    \/ JsonParse(text).ok /\ body = JsonParse(text).val
    \/ text = <<>> /\ body = Null

(***************************************************************************)
(* C1: the connection a sendPush call opened is closed on every exit path: *)
(* whenever the promise has settled the connection is closed, and no       *)
(* exchange is over with the connection still open.                        *)
(***************************************************************************)
C1_ClosedOnEveryExit ==
    \A c \in Calls :
        /\ (Opened(c) /\ Settled(c)) => client[ClientOf(c)] = "closed"
        /\ ExchangeOver(c) => client[ClientOf(c)] = "closed"

(***************************************************************************)
(* C2: a completed exchange never rejects: once the stream emitted 'end',  *)
(* the promise is resolved with the status and headers the gateway sent    *)
(* and the body it sent, whatever the status; a call that issued its       *)
(* request is rejected only when its stream emitted an error.              *)
(***************************************************************************)
C2_CompletedExchangeResolves ==
    \A c \in Calls :
        /\ stream[c].ended =>
              /\ promise[c] = "resolved"
              /\ outcome[c].headers = (IF stream[c].hdrs = Undef
                                       THEN Obj(<<>>) ELSE stream[c].hdrs)
              /\ stream[c].hdrs # Undef =>
                    outcome[c].status = Get(stream[c].hdrs, ":status")
              /\ RepresentsText(outcome[c].body, Concat(stream[c].sent))
        /\ (Opened(c) /\ promise[c] = "rejected") => stream[c].err # Undef

\* A call resolved with a gateway rejection and its diagnostic body.
C2_Witness ==
    \E c \in Calls :
        /\ stream[c].ended /\ promise[c] = "resolved"
        /\ outcome[c].status \in {Num(400), Num(503)}
        /\ Len(stream[c].sent) = 2

(***************************************************************************)
(* C3: when the stream errors before end-of-stream (also after response    *)
(* headers or data were received), the promise is rejected with that error *)
(* and carries no result.                                                  *)
(***************************************************************************)
C3_ErrorRejects ==
    \A c \in Calls :
        (stream[c].err # Undef /\ ~stream[c].ended) =>
            /\ promise[c] = "rejected"
            /\ outcome[c] = stream[c].err

\* An error after the response headers and a delivered chunk.
C3_Witness ==
    \E c \in Calls :
        /\ stream[c].err = E_reset /\ ~stream[c].ended
        /\ stream[c].hdrs # Undef /\ stream[c].emitted >= 1
        /\ promise[c] = "rejected"

\* The connection refused before any stream event.
C3_WitnessRefused ==
    \E c \in Calls :
        /\ stream[c].err = E_refused /\ stream[c].hdrs = Undef
        /\ promise[c] = "rejected" /\ outcome[c] = E_refused

(***************************************************************************)
(* C4: every sendPush call eventually settles, whatever the gateway does.  *)
(***************************************************************************)
C4_EventuallySettles ==
    \A c \in Calls : (promise[c] = "pending") ~> Settled(c)

(***************************************************************************)
(* C5: concurrent calls share nothing: the text a call accumulates is the  *)
(* text its own stream delivered, the result it settles with is built from *)
(* its own stream, and its connection is closed by its own end or error    *)
(* only.                                                                   *)
(***************************************************************************)
C5_NoSharedState ==
    \A c \in Calls :
        Opened(c) =>
            /\ resp[BufferOf(c)] = Delivered(c)
            /\ promise[c] = "resolved" =>
                  /\ RepresentsText(outcome[c].body, Concat(stream[c].sent))
                  /\ outcome[c].headers = hdr[c]
                  /\ stream[c].hdrs # Undef => outcome[c].headers = stream[c].hdrs
            /\ client[ClientOf(c)] = "closed" <=> (stream[c].ended \/ stream[c].err # Undef)

\* Two sends in flight at once, each having received different text, one of
\* them already closed and settled while the other is still open.
C5_Witness ==
    \E c, d \in Calls :
        /\ c # d
        /\ promise[c] = "resolved" /\ client[ClientOf(c)] = "closed"
        /\ promise[d] = "pending" /\ client[ClientOf(d)] = "open"
        /\ stream[c].emitted >= 1 /\ stream[d].emitted >= 1
        /\ Delivered(c) # Delivered(d)


(***************************************************************************)
(* Vocabulary of the compiler's properties.                                *)
(***************************************************************************)
Compiled == cout # Undef
\* The options and the content sendPush received.
InOpts == OptsOf(cin)
InPayload == HandlerPayload(cin.body)
Aps == Get(cout.body, "aps")
PushTypeHeader == Get(cout.headers, "apns-push-type")
PriorityHeader == Get(cout.headers, "apns-priority")
BackgroundShape ==
    Keys(Aps) = {"content-available"} /\ Get(Aps, "content-available") = Num(1)
AlertShape ==
    Keys(Aps) = {"alert", "sound"} /\ Get(Aps, "sound") = Str(S_default)
\* The intent asked for: background, or alert (also by default).
AskedBackground == InOpts.pushType = Str(S_background)
AskedAlert == InOpts.pushType \in {Undef, Str(S_alert)}

(***************************************************************************)
(* C6 as stated: the aps object has exactly the keys of its intent: alert  *)
(* and sound for alert, content-available alone for background, never both *)
(* shapes, and no alert key in a background body.                          *)
(***************************************************************************)
C6_ExactShape ==
    Compiled =>
        /\ BackgroundShape \/ AlertShape
        /\ AskedBackground => BackgroundShape
        /\ AskedAlert => AlertShape
        /\ ~("content-available" \in Keys(Aps) /\ Keys(Aps) \cap {"alert", "sound"} # {})

(***************************************************************************)
(* C6 as amended: a background body has content-available = 1 as its only  *)
(* aps key; an alert body has sound = "default", no content-available, and *)
(* the alert key, except that v2 leaves the alert key out when neither     *)
(* title nor body is non-empty; no body mixes the two shapes.              *)
(***************************************************************************)
AlertShapeOrBare ==
    /\ Keys(Aps) \subseteq {"alert", "sound"}
    /\ Get(Aps, "sound") = Str(S_default)
    /\ "alert" \in Keys(Aps) <=>
          (variant = "v1" \/ Truthy(InPayload.title) \/ Truthy(InPayload.body))

C6_ShapeByIntent ==
    Compiled =>
        /\ BackgroundShape \/ AlertShapeOrBare
        /\ AskedBackground => BackgroundShape
        /\ AskedAlert => AlertShapeOrBare
        /\ ~("content-available" \in Keys(Aps) /\ Keys(Aps) \cap {"alert", "sound"} # {})

\* v2 compiled an alert without title and body: aps is {sound} alone.
C6_Witness ==
    /\ Compiled /\ variant = "v2" /\ AskedAlert
    /\ ~Truthy(InPayload.title) /\ ~Truthy(InPayload.body)
    /\ Keys(Aps) = {"sound"}

\* The other shapes: a background body, and an alert body with a title.
C6_WitnessBackground ==
    /\ Compiled /\ AskedBackground /\ BackgroundShape
    /\ Truthy(InPayload.title) /\ Truthy(InPayload.data)

C6_WitnessAlert ==
    /\ Compiled /\ AskedAlert /\ AlertShape
    /\ Get(Get(Aps, "alert"), "title") = Str(S_Hi)

(***************************************************************************)
(* C7: the apns-priority header is always there; it is the string form of  *)
(* the caller's priority when one was given (0 included), else "5" for     *)
(* background and "10" for alert.                                          *)
(***************************************************************************)
C7_PriorityHeader ==
    Compiled =>
        /\ "apns-priority" \in Keys(cout.headers)
        /\ InOpts.priority = Num(0) => PriorityHeader = Str(<<"0">>)
        /\ InOpts.priority = Num(5) => PriorityHeader = Str(<<"5">>)
        /\ InOpts.priority = Num(7) => PriorityHeader = Str(<<"7">>)
        /\ InOpts.priority = Num(10) => PriorityHeader = Str(<<"1", "0">>)
        /\ (IsNullish(InOpts.priority) /\ AskedBackground) => PriorityHeader = Str(<<"5">>)
        /\ (IsNullish(InOpts.priority) /\ AskedAlert) => PriorityHeader = Str(<<"1", "0">>)

\* A caller's priority 0 on a background push, sent as "0".
C7_Witness ==
    /\ Compiled /\ InOpts.priority = Num(0) /\ AskedBackground
    /\ PriorityHeader = Str(<<"0">>)

(***************************************************************************)
(* C8: whatever options.pushType is, the apns-push-type header is "alert"  *)
(* or "background" and agrees with the body and the default priority.      *)
(***************************************************************************)
C8_PushTypeAgrees ==
    Compiled =>
        /\ PushTypeHeader \in {Str(S_alert), Str(S_background)}
        /\ PushTypeHeader = Str(S_background) <=> BackgroundShape
        /\ PushTypeHeader = Str(S_alert) <=> ~BackgroundShape
        /\ IsNullish(InOpts.priority) =>
              PriorityHeader = (IF BackgroundShape THEN Str(<<"5">>) ELSE Str(<<"1", "0">>))

(***************************************************************************)
(* C9: a non-empty response text that is valid JSON is returned as its     *)
(* parsed value, any other non-empty text unchanged as a string, and the   *)
(* send never fails because of the body.                                   *)
(***************************************************************************)
C9_ParsedOrRaw ==
    \A c \in Calls :
        stream[c].ended =>
            LET text == Concat(stream[c].sent)
            IN  /\ promise[c] = "resolved"
                /\ (text # <<>> /\ JsonParse(text).ok) =>
                       outcome[c].body = JsonParse(text).val
                /\ (text # <<>> /\ ~JsonParse(text).ok) => outcome[c].body = Str(text)

(***************************************************************************)
(* C10: an exchange completed with an empty body gives the empty string as *)
(* gateway body, with ok following the status alone, in what sendPush      *)
(* resolves with and in what the push handler reports.                     *)
(***************************************************************************)
C10_EmptyBodyIsEmptyString ==
    \A c \in Calls :
        (stream[c].ended /\ stream[c].hdrs # Undef /\ Concat(stream[c].sent) = <<>>) =>
            /\ promise[c] = "resolved"
            /\ outcome[c].body = Str(<<>>)
            /\ via[c] = "http" =>
                  /\ reply[c].apns = Str(<<>>)
                  /\ reply[c].status = outcome[c].status
                  /\ reply[c].ok = (outcome[c].status = Num(200))

(***************************************************************************)
(* Vocabulary of the later properties.                                     *)
(***************************************************************************)
\* The status the gateway sent to call c (undefined when it sent none).
GatewayStatus(c) ==
    IF stream[c].hdrs = Undef THEN Undef ELSE Get(stream[c].hdrs, ":status")
\* The text the gateway sent to call c.
GatewayText(c) == Concat(stream[c].sent)
\* The signed assertion call c put in its authorization header.
TokenOf(c) == Get(wire[c].headers, "authorization").v
\* handleSend received the request of call c and its send resolved.
Answered(c) == via[c] = "http" /\ promise[c] = "resolved"

(***************************************************************************)
(* C11: status 200 is the sole success code: for every resolved send the   *)
(* handler reports ok exactly when the gateway status is 200, and for any  *)
(* other status it reports ok = false with the status and the body the     *)
(* gateway returned (the body as its text, its parsed value, or null for   *)
(* an empty body).                                                         *)
(***************************************************************************)
C11_OnlyStatus200IsOk ==
    \A c \in Calls :
        Answered(c) =>
            /\ reply[c].ok = (GatewayStatus(c) = Num(200))
            /\ (GatewayStatus(c) \notin {Undef, Num(200)}) =>
                  /\ reply[c].ok = FALSE
                  /\ reply[c].status = GatewayStatus(c)
                  /\ RepresentsText(reply[c].apns, GatewayText(c))

(***************************************************************************)
(* C12: a missing or malformed sender identity is a startup failure only:  *)
(* once the module has loaded, no send fails in signing for want of a      *)
(* configuration field or of usable key material.                          *)
(***************************************************************************)
C12_ConfigFailsAtLoadOnly ==
    \A c \in Calls :
        via[c] # "none" => ~(promise[c] \in {"rejected", "threw"} /\ outcome[c] = E_sign)

(***************************************************************************)
(* C13: each sendPush call is one attempt: a call that got as far as the   *)
(* connection has opened exactly one connection and issued exactly one     *)
(* request, whatever happened since; any other call has opened none.       *)
(***************************************************************************)
C13_ExactlyOneAttempt ==
    \A c \in Calls :
        /\ Opened(c) => attempts[c].connects = 1 /\ attempts[c].requests = 1
        /\ ~Opened(c) => attempts[c].connects = 0 /\ attempts[c].requests = 0
        /\ (Opened(c) /\ stream[c].err # Undef) => client[ClientOf(c)] = "closed"

\* A send that failed by a transport error after the response headers, and a
\* send rejected by the gateway: one connection and one request each.
C13_Witness ==
    \E c, d \in Calls :
        /\ c # d
        /\ promise[c] = "rejected" /\ stream[c].err = E_reset /\ stream[c].hdrs # Undef
        /\ attempts[c].connects = 1 /\ attempts[c].requests = 1
        /\ promise[d] = "resolved" /\ outcome[d].status = Num(503)
        /\ attempts[d].connects = 1 /\ attempts[d].requests = 1

(***************************************************************************)
(* C14: every call signs its own assertion, once, with the clock it reads  *)
(* itself (issuedAt is that clock in whole seconds, never an earlier       *)
(* call's), and with a clock that never goes back an assertion signed      *)
(* later has an issuedAt at least as large.                                *)
(***************************************************************************)
C14_FreshAndMonotonic ==
    \A c \in Calls :
        Opened(c) =>
            /\ attempts[c].signs = 1
            /\ TokenOf(c).iat = attempts[c].signedAt \div 1000
            /\ TokenOf(c).iat * 1000 <= now
            /\ \A d \in Calls :
                  (Opened(d) /\ attempts[c].signedAt <= attempts[d].signedAt) =>
                      TokenOf(c).iat <= TokenOf(d).iat

\* Two sends signed in different seconds, and the clock in mid-second.
C14_Witness ==
    \E c, d \in Calls :
        /\ Opened(c) /\ Opened(d)
        /\ attempts[c].signedAt = 500 /\ attempts[d].signedAt = 1500
        /\ TokenOf(c).iat = 0 /\ TokenOf(d).iat = 1

\* Two sends signed in the same second at different instants.
C14_WitnessSameSecond ==
    \E c, d \in Calls :
        /\ Opened(c) /\ Opened(d)
        /\ attempts[c].signedAt < attempts[d].signedAt
        /\ TokenOf(c).iat = 1 /\ TokenOf(d).iat = 1

(***************************************************************************)
(* C15: a resolved result carries the status the gateway sent to that      *)
(* call: no send resolves without response headers received, and the       *)
(* status resolved with (and reported by the handler) is their :status.    *)
(***************************************************************************)
C15_StatusIsGatewayStatus ==
    \A c \in Calls :
        promise[c] = "resolved" =>
            /\ stream[c].hdrs # Undef
            /\ outcome[c].status = GatewayStatus(c)
            /\ via[c] = "http" => reply[c].status = GatewayStatus(c)

C16_WitnessRepeated ==
    \E c \in Calls :
        /\ stream[c].ended /\ promise[c] = "resolved"
        /\ stream[c].sent = << <<"0">>, <<"0">> >>
        /\ outcome[c].body = Str(<<"0", "0">>)

(***************************************************************************)
(* C17: the optional parts appear only when supplied and in their place:   *)
(* the apns-collapse-id header is there exactly when the caller gave a     *)
(* non-empty collapseId, and is that value; the data blob is a top-level   *)
(* member of the payload next to aps exactly when the caller gave one,     *)
(* never a member of aps; for alert and background alike.                  *)
(***************************************************************************)
C17_OptionalParts ==
    Compiled =>
        /\ "apns-collapse-id" \in Keys(cout.headers) <=>
              (InOpts.collapseId.t = "string" /\ InOpts.collapseId.v # <<>>)
        /\ "apns-collapse-id" \in Keys(cout.headers) =>
              Get(cout.headers, "apns-collapse-id") = InOpts.collapseId
        /\ "data" \in Keys(cout.body) <=> InPayload.data # Undef
        /\ "data" \in Keys(cout.body) => Get(cout.body, "data") = InPayload.data
        /\ "aps" \in Keys(cout.body) /\ Keys(cout.body) \subseteq {"aps", "data"}
        /\ "data" \notin Keys(Aps)

\* A background push with a collapse id and a data blob.
C17_Witness ==
    /\ Compiled /\ BackgroundShape
    /\ Get(cout.headers, "apns-collapse-id") = Str(S_c1)
    /\ Keys(cout.body) = {"aps", "data"}

\* An alert with an empty collapse id and no data.
C17_WitnessAbsent ==
    /\ Compiled /\ AskedAlert /\ InOpts.collapseId = Str(<<>>)
    /\ "apns-collapse-id" \notin Keys(cout.headers)
    /\ Keys(cout.body) = {"aps"}

(***************************************************************************)
(* C18: a promise settles at most once: it leaves pending by the stream's  *)
(* 'end' (resolved) or by the stream's error (rejected), and from then on  *)
(* no step changes its state, its outcome or the reply already given.      *)
(***************************************************************************)
C18_SettlesOnce ==
    [][\A c \in Calls :
          /\ Settled(c) =>
                /\ promise'[c] = promise[c]
                /\ outcome'[c] = outcome[c]
                /\ reply'[c] = reply[c]
          /\ (promise[c] = "pending" /\ promise'[c] = "resolved") =>
                (~stream[c].ended /\ stream'[c].ended)
          /\ (promise[c] = "pending" /\ promise'[c] = "rejected") =>
                (stream[c].err = Undef /\ stream'[c].err # Undef)]_vars

\* An error arrived after 'end' had resolved the promise with a body.
C18_Witness ==
    \E c \in Calls :
        /\ stream[c].ended /\ stream[c].err # Undef
        /\ promise[c] = "resolved" /\ outcome[c].status = Num(200)
        /\ stream[c].emitted >= 1

\* What handleSend has answered, by the state of the send it started.
ReplyFollowsOutcome ==
    \A c \in Calls :
        via[c] = "http" =>
            /\ ~Truthy(reqToken[c]) =>
                  /\ reply[c].code = 400 /\ reply[c].ok = FALSE
                  /\ promise[c] = "none" /\ client[ClientOf(c)] = "none"
                  /\ attempts[c] = NoAttempt /\ wire[c] = Undef
            /\ Truthy(reqToken[c]) => promise[c] # "none"
            /\ promise[c] \in {"rejected", "threw"} =>
                  /\ reply[c].code = 500 /\ reply[c].ok = FALSE
                  /\ reply[c].error = outcome[c]
            /\ promise[c] = "resolved" =>
                  /\ reply[c].ok = (GatewayStatus(c) = Num(200))
                  /\ reply[c].code =
                        (IF GatewayStatus(c) \in {Undef, Num(0)} THEN 400
                         ELSE GatewayStatus(c).v)
            /\ promise[c] = "pending" => reply[c] = NoReply

C19_WitnessRejected ==
    \E c \in Calls :
        /\ via[c] = "http" /\ promise[c] = "rejected" /\ outcome[c] = E_refused
        /\ reply[c].code = 500

=============================================================================
